---- MODULE Spec2Model ----
(***************************************************************************)
(* PBI-API-Beacon: the authenticated request layer (api.py), the shared    *)
(* client provider (PbiAPI) and the entity fetch protocol (service.py,     *)
(* workspace.py and the entity classes).                                   *)
(*                                                                         *)
(* The program is single-threaded and blocking: every public operation     *)
(* runs to completion before the caller issues the next one, so each       *)
(* operation is one action.  What an operation did on the way (HTTP        *)
(* attempts, backoff sleeps, log records, TokenProvider calls) is kept in   *)
(* the record `last`, in the order in which the code did it.               *)
(***************************************************************************)
EXTENDS Integers, Sequences, FiniteSets, TLC

VARIABLES
    pbi,        \* the PbiAPI singleton: <<>> before the first PbiAPI(...) call, else <<instance>>
    clients,    \* heap of AbstractPbiAPI instances, in order of construction
    services,   \* the Service objects the caller has constructed
    held,       \* the caller's variable for a Workspace it got or built itself: <<>> or <<w>>
    last        \* what the most recent operation did and how it ended

vars == <<pbi, clients, services, held, last>>

-----------------------------------------------------------------------------
(* Bounds of the model.                                                    *)

\* largest max_retries a caller passes explicitly to a request operation
MaxRetries == 3

\* depth of nested authenticate() frames at which the interpreter gives up
RecursionLimit == 3

\* number of Service objects the caller constructs
MaxServices == 2

-----------------------------------------------------------------------------
(* Python values.                                                          *)

None == "None"

Truthy(v) == v \notin {None, ""}

\* the backoff computed as 2 * attempt
Pow2Linear(n) == 2 * n

RECURSIVE Pow2(_)
Pow2(n) == IF n = 0 THEN 1 ELSE 2 * Pow2(n - 1)

\* dict.get(key) on a JSON object modelled as a function: None when absent
Get(d, k) == IF k \in DOMAIN d THEN d[k] ELSE None

-----------------------------------------------------------------------------
(* Exceptions: api_custom_exceptions.py and the transport's exceptions.    *)

\* direct base class of every exception class the program raises or catches
ExcBase ==
    [ APIError                   |-> "Exception",
      UnauthorizedError          |-> "Exception",
      TokenExpiredError          |-> "Exception",
      TooManyRequestsError       |-> "Exception",
      InternalServerError        |-> "Exception",
      JSONDecodeError            |-> "APIError",
      PowerBIEntityNotFoundError |-> "Exception",
      RequestException           |-> "Exception",
      Timeout                    |-> "RequestException",
      ReadTimeout                |-> "Timeout",
      TooManyRedirects           |-> "RequestException",
      HTTPError                  |-> "RequestException",
      ConnectionError            |-> "RequestException",
      TypeError                  |-> "Exception",
      ValueError                 |-> "Exception",
      RecursionError             |-> "Exception",
      ClientAuthenticationError  |-> "Exception",
      Exception                  |-> "BaseException" ]

RECURSIVE IsSubclass(_, _)
IsSubclass(cls, base) ==
    IF cls = base THEN TRUE
    ELSE IF cls \notin DOMAIN ExcBase THEN FALSE
    ELSE IsSubclass(ExcBase[cls], base)

\* `except (A, B, ...)` matches an exception of class cls
Catches(handler, cls) == \E base \in handler : IsSubclass(cls, base)

-----------------------------------------------------------------------------
(* What one HTTP attempt can meet, and what a call can end with.           *)

\* a parsed JSON body: kind "dict" with its keys in obj, kind "list" for a JSON
\* array, kind "invalid" when response.json() cannot parse the text
NoBody == [kind |-> "none", obj |-> <<>>]

JsonObject(obj) == [kind |-> "dict", obj |-> obj]

JsonArray == [kind |-> "list", obj |-> <<>>]

InvalidJson == [kind |-> "invalid", obj |-> <<>>]

NoResponse == [t |-> "none", status |-> 0, exc |-> "", body |-> NoBody]

HttpResponse(s, b) == [t |-> "response", status |-> s, exc |-> "", body |-> b]

TransportError(e) == [t |-> "exc", status |-> 0, exc |-> e, body |-> NoBody]

NoResult == [kind |-> "none", error |-> "", msg |-> "", status |-> 0,
             cause |-> "", response |-> NoResponse]

Return(response) == [kind |-> "return", error |-> "", msg |-> "", status |-> response.status,
                     cause |-> "", response |-> response]

Raise(cls, message, s, why) == [kind |-> "raise", error |-> cls, msg |-> message, status |-> s,
                                cause |-> why, response |-> NoResponse]

\* entries of last.events
EvAttempt(method, url, headers, proxies, timeout) ==
    [k |-> "attempt", method |-> method, url |-> url, headers |-> headers,
     proxies |-> proxies, n |-> timeout, level |-> ""]

EvSleep(d) ==
    [k |-> "sleep", method |-> "", url |-> <<>>, headers |-> <<>>,
     proxies |-> <<>>, n |-> d, level |-> ""]

EvLog(level) ==
    [k |-> "log", method |-> "", url |-> <<>>, headers |-> <<>>,
     proxies |-> <<>>, n |-> 0, level |-> level]

EvProvider ==
    [k |-> "provider", method |-> "", url |-> <<>>, headers |-> <<>>,
     proxies |-> <<>>, n |-> 0, level |-> ""]

-----------------------------------------------------------------------------
(* AbstractPbiAPI: response classification and the retrying operations.    *)

BASE_URL == <<"https://api.powerbi.com/v1.0/myorg/">>

DefaultTimeoutDuration == 10

DefaultMaxRetries == 5

\* only 200 taken for a success
SuccessOnly200 == {200}

SuccessStatuses == {200, 201, 202}

\* the table with the entries of 401 and 403 exchanged
error_handlers_swapped ==
    [ s \in {401, 403, 404, 429, 500} |->
        CASE s = 401 -> <<"TokenExpiredError", "Token expired">>
          [] s = 403 -> <<"UnauthorizedError", "Unauthorized">>
          [] s = 404 -> <<"PowerBIEntityNotFoundError", "Cannot find entity or remove the user">>
          [] s = 429 -> <<"TooManyRequestsError", "Too many requests">>
          [] s = 500 -> <<"InternalServerError", "Internal server error">> ]

error_handlers ==
    [ s \in {401, 403, 404, 429, 500} |->
        CASE s = 401 -> <<"UnauthorizedError", "Unauthorized">>
          [] s = 403 -> <<"TokenExpiredError", "Token expired">>
          [] s = 404 -> <<"PowerBIEntityNotFoundError", "Cannot find entity or remove the user">>
          [] s = 429 -> <<"TooManyRequestsError", "Too many requests">>
          [] s = 500 -> <<"InternalServerError", "Internal server error">> ]

ErrorHandlerFor(s) ==
    IF s \in DOMAIN error_handlers THEN error_handlers[s] ELSE <<"APIError", "API error">>

\* _handle_response: the result of the call and the records it logs
_handle_response(response) ==
    IF response.status \in SuccessStatuses
    THEN [result |-> Return(response), events |-> <<>>]
    ELSE LET h == ErrorHandlerFor(response.status)
         IN  [result |-> Raise(h[1], h[2], response.status, ""),
              events |-> <<EvLog("error")>>]

\* every operation retrying on TooManyRequestsError as well
RetryHandlerAll(method) == {"Timeout", "TooManyRequestsError"}

\* the exception classes the first `except` clause of each operation retries on
RetryHandler(method) ==
    IF method = "POST" THEN {"Timeout", "TooManyRequestsError"} ELSE {"Timeout"}

\* the second clause without RequestException
FatalHandlerNarrow == {"TooManyRedirects", "HTTPError"}

\* the second `except` clause, the same in the three operations
FatalHandler == {"TooManyRedirects", "HTTPError", "RequestException"}

\* number of error records the retry clause writes
RetryLogs(method) ==
    IF method = "POST" THEN <<EvLog("error"), EvLog("error")>> ELSE <<EvLog("error")>>

\* the body of the `try` of one loop iteration: the HTTP call, the info record,
\* _handle_response
TryBody(req, o) ==
    LET sent == <<EvAttempt(req.method, req.url, req.headers, req.proxies, req.timeout)>>
        Handled(h) == [result |-> h.result, events |-> sent \o <<EvLog("info")>> \o h.events]
    IN  IF o.t = "exc"
        THEN [result |-> Raise(o.exc, "", 0, ""), events |-> sent]
        ELSE Handled(_handle_response(o))

\* one iteration of `for attempt in range(max_retries)`; result.kind = "none"
\* means the loop goes on
Iteration(req, attempt, o) ==
    LET Except(b) ==
            IF b.result.kind = "return" THEN b
            ELSE IF Catches(RetryHandler(req.method), b.result.error)
            THEN [result |-> NoResult,
                  events |-> b.events \o RetryLogs(req.method) \o <<EvSleep(Pow2(attempt))>>]
            ELSE IF Catches(FatalHandler, b.result.error)
            THEN [result |-> Raise("APIError", "Request error", 0, b.result.error),
                  events |-> b.events \o <<EvLog("error")>>]
            ELSE b
    IN  Except(TryBody(req, o))

ExhaustedMessage == "API request failed after maximum retries."

\* the loop of make_api_get_request / make_api_post_request /
\* make_api_delete_request from iteration `attempt` on, against a transport that
\* answers the i-th attempt of the call with script[i]
RECURSIVE RequestLoop(_, _, _)
RequestLoop(req, attempt, script) ==
    IF attempt >= req.max_retries
    THEN [result |-> Raise("APIError", ExhaustedMessage, 0, ""), events |-> <<>>]
    ELSE LET Joined(it, rest) == [result |-> rest.result, events |-> it.events \o rest.events]
             Continue(it) ==
                 IF it.result.kind # "none" THEN it
                 ELSE Joined(it, RequestLoop(req, attempt + 1, script))
         IN  Continue(Iteration(req, attempt, script[attempt + 1]))

Request(method, url, headers, proxies, timeout, max_retries) ==
    [method |-> method, url |-> url, headers |-> headers, proxies |-> proxies,
     timeout |-> timeout, max_retries |-> max_retries]

NoRequest == Request("", <<>>, <<>>, <<>>, 0, 0)

\* the call followed by a second call of the same request
make_api_request_twice(req, script) ==
    LET Twice(r) == [result |-> r.result, events |-> r.events \o r.events]
    IN  Twice(RequestLoop(req, 0, script))

make_api_request(req, script) == RequestLoop(req, 0, script)

-----------------------------------------------------------------------------
(* AbstractPbiAPI: construction and authentication.                        *)

\* what jwt.decode(token, options={"verify_signature": False}) makes of each
\* token the model hands to the client: the claims, or the error it raises
TokenClaims ==
    [ tA      |-> [error |-> "", claims |-> [upn |-> "alice@x.com", aud |-> "powerbi"]],
      tB      |-> [error |-> "", claims |-> [upn |-> "bob@x.com", aud |-> "powerbi"]],
      noupn   |-> [error |-> "", claims |-> [aud |-> "powerbi"]],
      garbage |-> [error |-> "DecodeError", claims |-> [aud |-> ""]] ]

Tokens == DOMAIN TokenClaims

Bearer(token) == <<"Bearer", token>>

NoHeader == <<>>

NoProxies == <<>>

Proxies(proxy_url) == IF Truthy(proxy_url) THEN <<proxy_url, proxy_url>> ELSE NoProxies

\* __user_info decoding the token without assigning self.user
user_info_not_assigning(c) ==
    LET d == TokenClaims[c.access_token]
    IN  IF d.error # "" THEN [error |-> d.error, client |-> c]
        ELSE IF "upn" \notin DOMAIN d.claims THEN [error |-> "KeyError", client |-> c]
        ELSE [error |-> "", client |-> c]

\* __user_info: the error it raises ("" when none) and the user it sets
user_info(c) ==
    LET d == TokenClaims[c.access_token]
    IN  IF d.error # "" THEN [error |-> d.error, client |-> c]
        ELSE IF "upn" \notin DOMAIN d.claims THEN [error |-> "KeyError", client |-> c]
        ELSE [error |-> "", client |-> [c EXCEPT !.user = d.claims["upn"]]]

\* the exception classes of the first `except` clause of authenticate; every
\* other error is caught by `except Exception`
JwtErrors == {"ExpiredSignatureError", "DecodeError", "InvalidSignatureError", "InvalidTokenError"}

ProviderFailure == "ClientAuthenticationError"

\* authenticate() entered as the depth-th nested frame, the TokenProvider
\* answering its next calls with provider[1], provider[2], ... and failing once
\* the script is used up; reauthenticate() is the branch taken when the claims
\* do not decode
RECURSIVE authenticate(_, _, _)
authenticate(c, provider, depth) ==
    IF depth > RecursionLimit
    THEN [client |-> c, error |-> "RecursionError", events |-> <<>>, reauths |-> 0, calls |-> 0]
    ELSE
    LET interactive == ~Truthy(c.saved_token)
        answer == IF ~interactive THEN c.saved_token
                  ELSE IF provider = <<>> THEN ProviderFailure ELSE Head(provider)
        calls == IF interactive THEN 1 ELSE 0
        asked == IF interactive THEN <<EvProvider>> ELSE <<>>
        rest == IF interactive /\ provider # <<>> THEN Tail(provider) ELSE provider
    IN  IF interactive /\ answer = ProviderFailure
        THEN [client |-> c, error |-> ProviderFailure, events |-> asked,
              reauths |-> 0, calls |-> calls]
        ELSE
        LET c1 == [c EXCEPT !.access_token = answer, !.header = Bearer(answer)]
            u == user_info(c1)
        IN  IF u.error = ""
            THEN [client |-> u.client, error |-> "", events |-> asked,
                  reauths |-> 0, calls |-> calls]
            ELSE
            LET logged == IF u.error \in JwtErrors THEN EvLog("warning") ELSE EvLog("error")
                again == authenticate([c1 EXCEPT !.saved_token = None], rest, depth + 1)
            IN  [client |-> again.client, error |-> again.error,
                 events |-> asked \o <<logged>> \o again.events,
                 reauths |-> 1 + again.reauths, calls |-> calls + again.calls]

\* reauthenticate() without `self.saved_token = None`
reauthenticate_keeping_saved(c, provider) ==
    LET Counted(a) == [a EXCEPT !.reauths = 1 + a.reauths]
    IN  Counted(authenticate(c, provider, 1))

\* reauthenticate() called on an existing client
reauthenticate(c, provider) ==
    LET Counted(a) == [a EXCEPT !.reauths = 1 + a.reauths]
    IN  Counted(authenticate([c EXCEPT !.saved_token = None], provider, 1))

\* AbstractPbiAPI.__init__
AbstractPbiAPI(proxy_url, saved_token, provider) ==
    authenticate([proxies |-> Proxies(proxy_url), user |-> None, saved_token |-> saved_token,
                  access_token |-> None, header |-> NoHeader], provider, 1)

-----------------------------------------------------------------------------
(* PbiAPI: the shared-instance provider.                                   *)

\* SingletonMeta.__call__ for PbiAPI(proxy_url, saved_token): the one instance
\* is built from the arguments of the first call and returned by every call
SingletonCall(p, proxy_url, saved_token) ==
    IF p = <<>>
    THEN <<[proxy_url |-> proxy_url, saved_token |-> saved_token, _pbi_api |-> 0]>>
    ELSE p

\* the property building a client at every access
pbi_api_always_new(p, cs, provider) ==
    LET Kept(a) ==
            IF a.error # ""
            THEN [pbi |-> p, clients |-> cs, api |-> 0, error |-> a.error,
                  events |-> a.events, reauths |-> a.reauths, calls |-> a.calls]
            ELSE [pbi |-> <<[p[1] EXCEPT !._pbi_api = Len(cs) + 1]>>,
                  clients |-> Append(cs, a.client), api |-> Len(cs) + 1, error |-> "",
                  events |-> a.events, reauths |-> a.reauths, calls |-> a.calls]
    IN  Kept(AbstractPbiAPI(p[1].proxy_url, p[1].saved_token, provider))

\* the pbi_api property read on the instance p[1]; clients are named by their
\* position in the heap cs, 0 standing for None
pbi_api(p, cs, provider) ==
    LET Kept(a) ==
            IF a.error # ""
            THEN [pbi |-> p, clients |-> cs, api |-> 0, error |-> a.error,
                  events |-> a.events, reauths |-> a.reauths, calls |-> a.calls]
            ELSE [pbi |-> <<[p[1] EXCEPT !._pbi_api = Len(cs) + 1]>>,
                  clients |-> Append(cs, a.client), api |-> Len(cs) + 1, error |-> "",
                  events |-> a.events, reauths |-> a.reauths, calls |-> a.calls]
    IN  IF p[1]._pbi_api = 0
        THEN Kept(AbstractPbiAPI(p[1].proxy_url, p[1].saved_token, provider))
        ELSE [pbi |-> p, clients |-> cs, api |-> p[1]._pbi_api, error |-> "",
              events |-> <<>>, reauths |-> 0, calls |-> 0]

\* PbiAPI(proxy_url, saved_token).pbi_api as the constructors of Service,
\* Workspace and Report evaluate it
SharedApi(p, cs, proxy_url, saved_token, provider) ==
    pbi_api(SingletonCall(p, proxy_url, saved_token), cs, provider)

-----------------------------------------------------------------------------
(* Entities: workspace.py, report.py, semantic_model.py, user.py, app.py.  *)

\* a reference to the object passed as `parent`
NoRef == [kind |-> "None", held |-> FALSE, svc |-> 0, id |-> ""]

ServiceRef(s) == [kind |-> "Service", held |-> FALSE, svc |-> s, id |-> ""]

\* where a Workspace object lives: in services[svc].workspaces or in `held`
WorkspaceRef(inHeld, s, id) == [kind |-> "Workspace", held |-> inHeld, svc |-> s, id |-> id]

Workspace(parent, kwargs, api) ==
    [ cls |-> "Workspace", original_data |-> kwargs, parent |-> parent, api |-> api,
      id |-> Get(kwargs, "id"), name |-> Get(kwargs, "name"),
      is_read_only |-> Get(kwargs, "isReadOnly"),
      is_on_dedicated_capacity |-> Get(kwargs, "isOnDedicatedCapacity"),
      capacity_id |-> Get(kwargs, "capacityId"),
      reports |-> {}, semantic_models |-> {}, dataflows |-> {}, dashboards |-> {},
      data_sources |-> {}, users |-> {} ]

Report(parent, kwargs, api) ==
    [ cls |-> "Report", original_data |-> kwargs, parent |-> parent, api |-> api,
      app_id |-> Get(kwargs, "appId"), dataset_id |-> Get(kwargs, "datasetId"),
      description |-> Get(kwargs, "description"), embed_url |-> Get(kwargs, "embedUrl"),
      id |-> Get(kwargs, "id"), name |-> Get(kwargs, "name"),
      original_report_id |-> Get(kwargs, "originalReportId"),
      type |-> Get(kwargs, "reportType"), web_url |-> Get(kwargs, "webUrl"),
      modified_by |-> Get(kwargs, "modifiedBy"), created_by |-> Get(kwargs, "createdBy") ]

SemanticModel(parent, kwargs) ==
    [ cls |-> "SemanticModel", original_data |-> kwargs, parent |-> parent,
      id |-> Get(kwargs, "id"), name |-> Get(kwargs, "name"),
      configured_by |-> Get(kwargs, "configuredBy"),
      is_refreshable |-> Get(kwargs, "isRefreshable"),
      created_date |-> Get(kwargs, "createdDate"),
      storage_mode |-> Get(kwargs, "targetStorageMode") ]

User(parent, kwargs) ==
    [ cls |-> "User", original_data |-> kwargs, parent |-> parent,
      email |-> Get(kwargs, "emailAddress"),
      access_right |-> Get(kwargs, "groupUserAccessRight"),
      principal_type |-> Get(kwargs, "principalType"),
      name |-> Get(kwargs, "displayName") ]

App(service, kwargs) ==
    [ cls |-> "App", original_data |-> kwargs, service |-> service,
      id |-> Get(kwargs, "id"), description |-> Get(kwargs, "description"),
      name |-> Get(kwargs, "name"), published_by |-> Get(kwargs, "publishedBy"),
      last_update |-> Get(kwargs, "lastUpdate") ]

\* dashboard.py is not among the sources: a Dashboard is taken to be one more
\* snapshot entity, identified by its id
Dashboard(parent, kwargs) ==
    [ cls |-> "Dashboard", original_data |-> kwargs, parent |-> parent,
      id |-> Get(kwargs, "id"), name |-> Get(kwargs, "displayName") ]

\* the tuple each __hash__ hashes
HashKey(x) ==
    CASE x.cls = "Report" -> <<x.dataset_id, x.id>>
      [] x.cls = "User" -> <<x.email>>
      [] OTHER -> <<x.id>>

\* __hash__: the hash of a tuple is a function of the tuple
Hash(x) == HashKey(x)

\* equality of every attribute
EqWhole(a, b) == a = b

\* __eq__
Eq(a, b) ==
    IF b.cls # a.cls THEN FALSE
    ELSE CASE a.cls = "Report" -> a.dataset_id = b.dataset_id /\ a.id = b.id
           [] a.cls = "User" -> a.email = b.email
           [] OTHER -> a.id = b.id

\* a set that keeps every object added to it
SetAddAlways(S, x) == S \cup {x}

\* set.add: an element equal to one already in the set is not added
SetAdd(S, x) ==
    IF \E y \in S : Hash(y) = Hash(x) /\ Eq(y, x) THEN S ELSE S \cup {x}

-----------------------------------------------------------------------------
(* The fetch protocol: service.py and workspace.py.                        *)

\* the tokens the TokenProvider has left after `calls` calls
Remaining(provider, calls) ==
    IF calls >= Len(provider) THEN <<>> ELSE SubSeq(provider, calls + 1, Len(provider))

\* {Cls(self, **e) for e in value}: the constructors run in the order of the
\* array, Workspace and Report asking PbiAPI(proxy_url=None).pbi_api for the client
RECURSIVE BuildFrom(_, _, _, _, _)
BuildFrom(cls, parent, value, i, st) ==
    IF i > Len(value) \/ st.error # "" THEN st
    ELSE LET New(e, api) ==
                 CASE cls = "Workspace" -> Workspace(parent, e, api)
                   [] cls = "Report" -> Report(parent, e, api)
                   [] cls = "SemanticModel" -> SemanticModel(parent, e)
                   [] cls = "User" -> User(parent, e)
                   [] cls = "Dashboard" -> Dashboard(parent, e)
                   [] cls = "App" -> App(parent, e)
             Added(a, x) ==
                 [ set |-> IF a.error = "" THEN SetAdd(st.set, x) ELSE st.set,
                   pbi |-> a.pbi, clients |-> a.clients, error |-> a.error,
                   events |-> st.events \o a.events,
                   provider |-> Remaining(st.provider, a.calls) ]
             With(a) == Added(a, New(value[i], a.api))
         IN  BuildFrom(cls, parent, value, i + 1,
                 With(IF cls \in {"Workspace", "Report"}
                      THEN SharedApi(st.pbi, st.clients, None, None, st.provider)
                      ELSE [pbi |-> st.pbi, clients |-> st.clients, api |-> 0, error |-> "",
                            events |-> <<>>, reauths |-> 0, calls |-> 0]))

ReturnNone == Return(NoResponse)

\* a fetch that empties the collection when the body has not the promised shape
MaterializeClearing(r, cls, parent, errorLog, p, cs, provider) ==
    LET stay == [result |-> r.result, events |-> r.events, assigned |-> FALSE, set |-> {},
                 pbi |-> p, clients |-> cs]
        data == r.result.response.body
        Built(b) ==
            IF b.error # ""
            THEN [result |-> Raise(b.error, "", 0, ""), events |-> r.events \o b.events,
                  assigned |-> FALSE, set |-> {}, pbi |-> b.pbi, clients |-> b.clients]
            ELSE [result |-> ReturnNone, events |-> r.events \o b.events,
                  assigned |-> TRUE, set |-> b.set, pbi |-> b.pbi, clients |-> b.clients]
    IN  IF r.result.kind = "raise" THEN stay
        ELSE IF data.kind \notin {"dict", "list"}
        THEN [stay EXCEPT !.result = Raise("ValueError", "Expecting value", 0, "")]
        ELSE IF data.kind = "list"
        THEN [stay EXCEPT !.result = Raise("TypeError", "The response must be a dictionary.", 0, ""),
                          !.events = r.events \o errorLog, !.assigned = TRUE]
        ELSE IF "value" \notin DOMAIN data.obj
        THEN [stay EXCEPT !.result = Raise("TypeError", "'NoneType' object is not iterable", 0, ""),
                          !.assigned = TRUE]
        ELSE Built(BuildFrom(cls, parent, data.obj["value"], 1,
                             [set |-> {}, pbi |-> p, clients |-> cs, error |-> "",
                              events |-> <<>>, provider |-> provider]))

\* a fetch that empties the collection when its GET fails
MaterializeEmptying(r, cls, parent, errorLog, p, cs, provider) ==
    LET stay == [result |-> r.result, events |-> r.events, assigned |-> FALSE, set |-> {},
                 pbi |-> p, clients |-> cs]
        data == r.result.response.body
        Built(b) ==
            IF b.error # ""
            THEN [result |-> Raise(b.error, "", 0, ""), events |-> r.events \o b.events,
                  assigned |-> FALSE, set |-> {}, pbi |-> b.pbi, clients |-> b.clients]
            ELSE [result |-> ReturnNone, events |-> r.events \o b.events,
                  assigned |-> TRUE, set |-> b.set, pbi |-> b.pbi, clients |-> b.clients]
    IN  IF r.result.kind = "raise" THEN [stay EXCEPT !.assigned = TRUE]
        ELSE IF data.kind \notin {"dict", "list"}
        THEN [stay EXCEPT !.result = Raise("ValueError", "Expecting value", 0, "")]
        ELSE IF data.kind = "list"
        THEN [stay EXCEPT !.result = Raise("TypeError", "The response must be a dictionary.", 0, ""),
                          !.events = r.events \o errorLog]
        ELSE IF "value" \notin DOMAIN data.obj
        THEN [stay EXCEPT !.result = Raise("TypeError", "'NoneType' object is not iterable", 0, "")]
        ELSE Built(BuildFrom(cls, parent, data.obj["value"], 1,
                             [set |-> {}, pbi |-> p, clients |-> cs, error |-> "",
                              events |-> <<>>, provider |-> provider]))

\* what a collection fetch does with the outcome r of its GET: response.json(),
\* the isinstance test, the set comprehension.  `assigned` says whether the
\* assignment to the collection attribute is reached; errorLog is what the else
\* branch logs before it raises
Materialize(r, cls, parent, errorLog, p, cs, provider) ==
    LET stay == [result |-> r.result, events |-> r.events, assigned |-> FALSE, set |-> {},
                 pbi |-> p, clients |-> cs]
        data == r.result.response.body
        Built(b) ==
            IF b.error # ""
            THEN [result |-> Raise(b.error, "", 0, ""), events |-> r.events \o b.events,
                  assigned |-> FALSE, set |-> {}, pbi |-> b.pbi, clients |-> b.clients]
            ELSE [result |-> ReturnNone, events |-> r.events \o b.events,
                  assigned |-> TRUE, set |-> b.set, pbi |-> b.pbi, clients |-> b.clients]
    IN  IF r.result.kind = "raise" THEN stay
        ELSE IF data.kind \notin {"dict", "list"}
        THEN [stay EXCEPT !.result = Raise("ValueError", "Expecting value", 0, "")]
        ELSE IF data.kind = "list"
        THEN [stay EXCEPT !.result = Raise("TypeError", "The response must be a dictionary.", 0, ""),
                          !.events = r.events \o errorLog]
        ELSE IF "value" \notin DOMAIN data.obj
        THEN [stay EXCEPT !.result = Raise("TypeError", "'NoneType' object is not iterable", 0, "")]
        ELSE Built(BuildFrom(cls, parent, data.obj["value"], 1,
                             [set |-> {}, pbi |-> p, clients |-> cs, error |-> "",
                              events |-> <<>>, provider |-> provider]))

\* "&".join([param for param in params if param]); a parameter is a sequence of
\* the pieces of text it is made of, <<>> being the empty string
RECURSIVE JoinAmp(_)
JoinAmp(params) ==
    IF params = <<>> THEN <<>>
    ELSE IF Head(params) = <<>> THEN JoinAmp(Tail(params))
    ELSE LET rest == JoinAmp(Tail(params))
         IN  IF rest = <<>> THEN Head(params) ELSE Head(params) \o <<"&">> \o rest

\* str(n) for the numbers the model passes as top and skip
Str(n) == CASE n = 0 -> "0" [] n = 1 -> "1" [] n = 2 -> "2" [] OTHER -> "n"

\* an optional int argument: <<>> for None, <<n>> for the int n
TruthyInt(v) == v # <<>> /\ v[1] # 0

\* f"$top={top}" if top else ""
UriInt(name, v) == IF TruthyInt(v) THEN <<name, Str(v[1])>> ELSE <<>>

\* f"$filter={filter}" if filter else ""
UriStr(name, v) == IF Truthy(v) THEN <<name, v>> ELSE <<>>

\* the GET every fetch issues: the client's current header and proxies, default
\* timeout and default max_retries
FetchRequest(cs, api, url) ==
    Request("GET", url, cs[api].header, cs[api].proxies, DefaultTimeoutDuration, DefaultMaxRetries)

-----------------------------------------------------------------------------
(* The operations the caller invokes, one action each.                     *)

\* the record of an operation: the request it issued (NoRequest when none), what
\* the transport answers to its attempts (script), what it did in order, how its
\* HTTP call ended (http), how it ended itself, and what the collection it
\* fetches held before
Did(op, ref, req, script, events, http, result, reauths, calls, before) ==
    [op |-> op, ref |-> ref, req |-> req, script |-> script, events |-> events,
     http |-> http, result |-> result, reauths |-> reauths, calls |-> calls,
     before |-> before]

\* what is remembered of a collection as it was before a fetch: the identity of
\* each member and whether it held fetched children
Populated(x) ==
    x.cls = "Workspace"
    /\ (x.reports \cup x.semantic_models \cup x.dashboards \cup x.users) # {}

Before(collection) == {[key |-> HashKey(x), populated |-> Populated(x)] : x \in collection}

Outcome(error) == IF error = "" THEN ReturnNone ELSE Raise(error, "", 0, "")

\* Service(proxy_url, saved_token)
NewService(proxy_url, saved_token, provider) ==
    /\ Len(services) < MaxServices
    /\ \E a \in {SharedApi(pbi, clients, proxy_url, saved_token, provider)} :
           /\ pbi' = a.pbi
           /\ clients' = a.clients
           /\ services' = IF a.error # "" THEN services
                          ELSE Append(services, [api |-> a.api, workspaces |-> {}, apps |-> {}])
           /\ last' = Did("Service", NoRef, NoRequest, <<>>, a.events, NoResult, Outcome(a.error),
                          a.reauths, a.calls, {})
    /\ UNCHANGED held

\* Workspace(parent, **kwargs) built by the caller itself
NewWorkspace(kwargs, provider) ==
    /\ \E a \in {SharedApi(pbi, clients, None, None, provider)} :
           /\ pbi' = a.pbi
           /\ clients' = a.clients
           /\ held' = IF a.error # "" THEN held ELSE <<Workspace(NoRef, kwargs, a.api)>>
           /\ last' = Did("Workspace", NoRef, NoRequest, <<>>, a.events, NoResult, Outcome(a.error),
                          a.reauths, a.calls, {})
    /\ UNCHANGED services

\* service.api.reauthenticate()
Reauthenticate(s, provider) ==
    /\ s \in 1..Len(services)
    /\ \E r \in {reauthenticate(clients[services[s].api], provider)} :
           /\ clients' = [clients EXCEPT ![services[s].api] = r.client]
           /\ last' = Did("reauthenticate", ServiceRef(s), NoRequest, <<>>, r.events, NoResult,
                          Outcome(r.error), r.reauths, r.calls, {})
    /\ UNCHANGED <<pbi, services, held>>

\* a request that re-authenticates the client when it is answered 403
DirectRequestReauth(s, method, max_retries, script) ==
    /\ s \in 1..Len(services)
    /\ \E api \in {services[s].api} :
       \E req \in {Request(method, BASE_URL, clients[api].header, clients[api].proxies,
                            DefaultTimeoutDuration, max_retries)} :
       \E r \in {make_api_request(req, script)} :
       \E a \in {reauthenticate(clients[api], <<"tB">>)} :
           /\ last' = Did("request", ServiceRef(s), req, script, r.events, r.result, r.result, 0, 0, {})
           /\ clients' = IF r.result.error = "TokenExpiredError"
                          THEN [clients EXCEPT ![api] = a.client] ELSE clients
    /\ UNCHANGED <<pbi, services, held>>

\* service.api.make_api_<method>_request(url, headers=api.header,
\* proxies=api.proxies, max_retries=max_retries)
DirectRequest(s, method, max_retries, script) ==
    /\ s \in 1..Len(services)
    /\ \E api \in {services[s].api} :
       \E req \in {Request(method, BASE_URL, clients[api].header, clients[api].proxies,
                            DefaultTimeoutDuration, max_retries)} :
       \E r \in {make_api_request(req, script)} :
           last' = Did("request", ServiceRef(s), req, script, r.events, r.result, r.result, 0, 0, {})
    /\ UNCHANGED <<pbi, clients, services, held>>

make_api_get_request(s, max_retries, script) == DirectRequest(s, "GET", max_retries, script)

make_api_post_request(s, max_retries, script) == DirectRequest(s, "POST", max_retries, script)

make_api_delete_request(s, max_retries, script) == DirectRequest(s, "DELETE", max_retries, script)

\* the collection kept with what was fetched added to it
AssignMerged(old, fetched) == old \cup fetched

\* an assignment that keeps the entity already held for each identity fetched
\* again, and takes the fetched one only for a new identity
AssignPatching(old, fetched) ==
    {IF \E o \in old : Eq(o, x) THEN CHOOSE o \in old : Eq(o, x) ELSE x : x \in fetched}

\* `self.<collection> = {...}`: the value the attribute has after the assignment
Assign(old, fetched) == fetched

\* a fetch called on the Service services[s]
ServiceFetch(s, op, field, cls, url, script, provider) ==
    /\ s \in 1..Len(services)
    /\ \E req \in {FetchRequest(clients, services[s].api, url)} :
       \E r \in {make_api_request(req, script)} :
       \E m \in {Materialize(r, cls, ServiceRef(s), <<EvLog("error")>>, pbi, clients, provider)} :
           /\ pbi' = m.pbi
           /\ clients' = m.clients
           /\ services' = IF ~m.assigned THEN services
                          ELSE IF field = "workspaces"
                          THEN [services EXCEPT ![s].workspaces = Assign(@, m.set)]
                          ELSE [services EXCEPT ![s].apps = Assign(@, m.set)]
           /\ last' = Did(op, ServiceRef(s), req, script, m.events, r.result, m.result, 0, 0,
                          Before(IF field = "workspaces" THEN services[s].workspaces
                                 ELSE services[s].apps))
    /\ UNCHANGED held

get_workspaces(s, filter, top, skip, script, provider) ==
    ServiceFetch(s, "get_workspaces", "workspaces", "Workspace",
                 BASE_URL \o <<"groups?">>
                     \o JoinAmp(<<UriStr("$filter=", filter), UriInt("$top=", top),
                                  UriInt("$skip=", skip)>>),
                 script, provider)

get_apps(s, script) ==
    ServiceFetch(s, "get_apps", "apps", "App", BASE_URL \o <<"apps">>, script, <<>>)

\* Service.get_workspace: the Workspace it returns goes to the caller's variable
get_workspace(s, workspace_id, script, provider) ==
    /\ s \in 1..Len(services)
    /\ \E req \in {FetchRequest(clients, services[s].api, BASE_URL \o <<"groups/", workspace_id>>)} :
       \E r \in {make_api_request(req, script)} :
       \E a \in {SharedApi(pbi, clients, None, None, provider)} :
       LET data == r.result.response.body
           built == r.result.kind = "return" /\ data.kind = "dict"
           result == IF r.result.kind = "raise" THEN r.result
                     ELSE IF data.kind = "invalid" THEN Raise("ValueError", "Expecting value", 0, "")
                     ELSE IF data.kind = "list"
                     THEN Raise("TypeError", "The response must be a dictionary.", 0, "")
                     ELSE IF a.error # "" THEN Raise(a.error, "", 0, "")
                     ELSE ReturnNone
           events == r.events \o (IF built THEN a.events
                                  ELSE IF r.result.kind = "return" /\ data.kind = "list"
                                  THEN <<EvLog("error")>> ELSE <<>>)
       IN  /\ pbi' = IF built THEN a.pbi ELSE pbi
           /\ clients' = IF built THEN a.clients ELSE clients
           /\ held' = IF built /\ a.error = ""
                      THEN <<Workspace(ServiceRef(s), data.obj, a.api)>> ELSE held
           /\ last' = Did("get_workspace", ServiceRef(s), req, script, events, r.result, result,
                          0, 0, {})
    /\ UNCHANGED services

\* the Workspace objects the caller can reach
WorkspaceRefs ==
    {WorkspaceRef(FALSE, s, w.id) : <<s, w>> \in
        UNION {{<<t, v>> : v \in services[t].workspaces} : t \in 1..Len(services)}}
    \cup {WorkspaceRef(TRUE, 0, held[i].id) : i \in 1..Len(held)}

Deref(ref) ==
    IF ref.held THEN held[1]
    ELSE CHOOSE w \in services[ref.svc].workspaces : w.id = ref.id

\* the collection attribute of a Workspace a fetch assigns
Field(w, field) ==
    CASE field = "reports" -> w.reports
      [] field = "semantic_models" -> w.semantic_models
      [] field = "users" -> w.users
      [] field = "dashboards" -> w.dashboards

\* an assignment that leaves a Workspace with nothing but what was just fetched
SetFieldRebuilt(w, field, fetched) ==
    [ [w EXCEPT !.reports = {}, !.semantic_models = {}, !.users = {}, !.dashboards = {}]
          EXCEPT ![field] = Assign(w[field], fetched) ]

\* `self.<field> = {...}` in a fetch of the Workspace w: the Workspace after it
SetField(w, field, fetched) ==
    CASE field = "reports" -> [w EXCEPT !.reports = Assign(@, fetched)]
      [] field = "semantic_models" -> [w EXCEPT !.semantic_models = Assign(@, fetched)]
      [] field = "users" -> [w EXCEPT !.users = Assign(@, fetched)]
      [] field = "dashboards" -> [w EXCEPT !.dashboards = Assign(@, fetched)]

\* a fetch called on the Workspace ref refers to
WorkspaceFetch(ref, op, field, cls, path, errorLog, script, provider) ==
    /\ ref \in WorkspaceRefs
    /\ \E w \in {Deref(ref)} :
       \E req \in {FetchRequest(clients, w.api, BASE_URL \o <<"groups/", w.id>> \o path)} :
       \E r \in {make_api_request(req, script)} :
       \E m \in {Materialize(r, cls, ref, errorLog, pbi, clients, provider)} :
       LET w2 == IF ~m.assigned THEN w ELSE SetField(w, field, m.set)
       IN  /\ pbi' = m.pbi
           /\ clients' = m.clients
           /\ held' = IF ref.held THEN <<w2>> ELSE held
           /\ services' = IF ref.held THEN services
                          ELSE [services EXCEPT ![ref.svc].workspaces = (@ \ {w}) \cup {w2}]
           /\ last' = Did(op, ref, req, script, m.events, r.result, m.result, 0, 0,
                          Before(Field(w, field)))

get_reports(ref, script, provider) ==
    WorkspaceFetch(ref, "get_reports", "reports", "Report", <<"/reports">>, <<>>,
                   script, provider)

get_semantic_models(ref, script) ==
    WorkspaceFetch(ref, "get_semantic_models", "semantic_models", "SemanticModel",
                   <<"/datasets">>, <<EvLog("error")>>, script, <<>>)

get_users(ref, top, skip, script) ==
    WorkspaceFetch(ref, "get_users", "users", "User",
                   <<"/users?">> \o JoinAmp(<<UriInt("$top=", top), UriInt("$skip=", skip)>>),
                   <<EvLog("error")>>, script, <<>>)

get_dashboards(ref, script) ==
    WorkspaceFetch(ref, "get_dashboards", "dashboards", "Dashboard", <<"/dashboards">>,
                   <<EvLog("error")>>, script, <<>>)

-----------------------------------------------------------------------------
(* The environment: what the transport and the TokenProvider can answer.   *)

Statuses == {200, 201, 202, 401, 403, 404, 429, 500, 599}

TransportFailures == {"Timeout", "ReadTimeout", "TooManyRedirects", "HTTPError", "ConnectionError"}

\* what one attempt of a direct request can meet
Outcomes ==
    {HttpResponse(st, NoBody) : st \in Statuses} \cup {TransportError(e) : e \in TransportFailures}

\* the outcomes after which some operation goes on to a next attempt
Retried ==
    {TransportError("Timeout"), TransportError("ReadTimeout"), HttpResponse(429, NoBody)}

\* transport behaviours for a call of n attempts: some retried outcomes, then one
\* outcome of finals, then timeouts; or retried outcomes throughout
Scripts(n, retried, finals) ==
    { [i \in 1..n |-> IF i <= Len(pf[1]) THEN pf[1][i]
                      ELSE IF i = Len(pf[1]) + 1 THEN pf[2]
                      ELSE TransportError("Timeout")] :
        pf \in (UNION {[1..k -> retried] : k \in 0..(n - 1)}) \X finals }
    \cup [1..n -> retried]

\* the tokens whose claims give the user, and the others
GoodTokens == {t \in Tokens : TokenClaims[t].error = "" /\ "upn" \in DOMAIN TokenClaims[t].claims}

BadTokens == Tokens \ GoodTokens

\* TokenProvider behaviours, each the tokens of its successive answers: some
\* tokens that do not give the user, then either a token that does or no answer
ProviderScripts ==
    UNION { [1..k -> BadTokens] \cup { Append(bad, good) : bad \in [1..k -> BadTokens],
                                                          good \in GoodTokens } :
            k \in 0..RecursionLimit }

\* the interactive login of a user whose token decodes
GoodLogin == [i \in 1..RecursionLimit |-> "tA"]

-----------------------------------------------------------------------------
(* Specifications.                                                         *)

NoOp == Did("", NoRef, NoRequest, <<>>, <<>>, NoResult, NoResult, 0, 0, {})

\* nothing constructed yet
InitEmpty ==
    /\ pbi = <<>>
    /\ clients = <<>>
    /\ services = <<>>
    /\ held = <<>>
    /\ last = NoOp

\* the state after `service = Service()` with a successful interactive login
InitService ==
    LET a == SharedApi(<<>>, <<>>, None, None, GoodLogin)
    IN  /\ pbi = a.pbi
        /\ clients = a.clients
        /\ services = <<[api |-> a.api, workspaces |-> {}, apps |-> {}]>>
        /\ held = <<>>
        /\ last = Did("Service", NoRef, NoRequest, <<>>, a.events, NoResult, Outcome(a.error),
                      a.reauths, a.calls, {})

\* the request layer: the three operations called with every max_retries up to
\* MaxRetries against every transport behaviour
NextRequest ==
    \E s \in 1..Len(services), n \in 0..MaxRetries :
        \E script \in Scripts(n, Retried, Outcomes) :
            \/ make_api_get_request(s, n, script)
            \/ make_api_post_request(s, n, script)
            \/ make_api_delete_request(s, n, script)

SpecRequest == InitService /\ [][NextRequest]_vars

-----------------------------------------------------------------------------
(* Properties of the request layer.                                        *)

IsAttempt(e) == e.k = "attempt"

IsStep(e) == e.k \in {"attempt", "sleep"}

\* the HTTP attempts of the last operation, and its attempts and sleeps, in order
Attempts(l) == SelectSeq(l.events, IsAttempt)

Steps(l) == SelectSeq(l.events, IsStep)

IsTimeout(o) == o.t = "exc" /\ o.exc \in {"Timeout", "ReadTimeout"}

IsFailureStatus(o) == o.t = "response" /\ o.status \notin {200, 201, 202}

\* the i-th attempt of the last operation was its last one and no sleep followed
EndsAt(l, i) ==
    /\ Len(Attempts(l)) = i
    /\ Steps(l)[Len(Steps(l))].k = "attempt"

\* a sleep of 2^(i-1) followed the i-th attempt
SleptAfter(l, i) ==
    \E j \in 1..Len(Steps(l)) :
        /\ Len(SelectSeq(SubSeq(Steps(l), 1, j), IsAttempt)) = i
        /\ Steps(l)[j].k = "sleep"
        /\ Steps(l)[j].n = 2 ^ (i - 1)

IsRequest(l) == l.op = "request"

\* C1: a request with max_retries = n >= 1 whose every attempt times out makes
\* exactly n attempts, sleeps 2^0, ..., 2^(n-1), one sleep after each attempt,
\* and then fails with the APIError "API request failed after maximum retries."
C1_RetryAccounting ==
    (IsRequest(last) /\ last.req.max_retries >= 1
        /\ \A i \in 1..Len(last.script) : IsTimeout(last.script[i]))
    => LET n == last.req.max_retries
       IN  /\ Len(Attempts(last)) = n
           /\ Len(Steps(last)) = 2 * n
           /\ \A i \in 1..n : /\ Steps(last)[2 * i - 1].k = "attempt"
                              /\ Steps(last)[2 * i].k = "sleep"
                              /\ Steps(last)[2 * i].n = 2 ^ (i - 1)
           /\ last.result.kind = "raise"
           /\ last.result.error = "APIError"
           /\ last.result.msg = "API request failed after maximum retries."

C1_Witness ==
    /\ IsRequest(last) /\ last.req.method = "DELETE" /\ last.req.max_retries = 3
    /\ \A i \in 1..3 : IsTimeout(last.script[i])
    /\ last.result.kind = "raise"
    /\ [i \in 1..6 |-> Steps(last)[i].n] = <<10, 1, 10, 2, 10, 4>>

\* the error kind the specification's table gives a status
TableError(st) ==
    CASE st = 401 -> "UnauthorizedError"
      [] st = 403 -> "TokenExpiredError"
      [] st = 404 -> "PowerBIEntityNotFoundError"
      [] st = 429 -> "TooManyRequestsError"
      [] st = 500 -> "InternalServerError"
      [] OTHER -> "APIError"

\* the attempts of the last request that got a response outside 200/201/202
FailedAttempts(l) ==
    {i \in 1..Len(Attempts(l)) : IsFailureStatus(l.script[i])}

RaisedFor(l, i) ==
    /\ l.result.kind = "raise"
    /\ l.result.error = TableError(l.script[i].status)
    /\ l.result.status = l.script[i].status

IsPost429(l, i) == l.req.method = "POST" /\ l.script[i].status = 429

C8_SuccessReturns ==
    IsRequest(last) =>
        \A i \in 1..Len(Attempts(last)) :
            (last.script[i].t = "response" /\ last.script[i].status \in {200, 201, 202})
            => /\ last.result.kind = "return"
               /\ last.result.response = last.script[i]
               /\ EndsAt(last, i)

C8_Witness ==
    /\ IsRequest(last) /\ last.req.method = "POST" /\ last.req.max_retries = 3
    /\ IsTimeout(last.script[1]) /\ IsTimeout(last.script[2]) /\ last.script[3].status = 202
    /\ last.result.kind = "return" /\ last.result.response.status = 202
    /\ Len(Attempts(last)) = 3

IsFatalTransport(o) == o.t = "exc" /\ o.exc \in {"TooManyRedirects", "HTTPError", "ConnectionError"}

\* C9: a redirect-loop or other non-timeout transport failure ends the operation
\* at once with an APIError wrapping the cause, no attempt and no sleep after
\* it, whereas a timed-out attempt is followed by its backoff sleep and, while
\* attempts remain, by the next attempt
C9_TransportFailure ==
    IsRequest(last) =>
        \A i \in 1..Len(Attempts(last)) :
            /\ IsFatalTransport(last.script[i])
               => /\ last.result.kind = "raise"
                  /\ last.result.error = "APIError"
                  /\ last.result.cause = last.script[i].exc
                  /\ EndsAt(last, i)
            /\ IsTimeout(last.script[i])
               => /\ SleptAfter(last, i)
                  /\ i < last.req.max_retries => Len(Attempts(last)) > i

C9_Witness ==
    /\ IsRequest(last) /\ last.req.method = "DELETE" /\ last.req.max_retries = 3
    /\ IsTimeout(last.script[1]) /\ last.script[2].exc = "ConnectionError"
    /\ last.result.error = "APIError" /\ last.result.cause = "ConnectionError"
    /\ Len(Attempts(last)) = 2

-----------------------------------------------------------------------------
(* Construction, authentication and the shared client.                     *)

ProxyUrls == {None, "http://proxy:8080"}

SavedTokens == {None, "", "tA", "garbage", "noupn"}

WorkspaceW1 == [id |-> "w1", name |-> "Sales"]

ReportR1 == [id |-> "r1", datasetId |-> "d1", name |-> "Revenue"]

Collection(value) == JsonObject([value |-> value])

\* the transport answering the first attempt with status st and the body b
Answer(st, b) ==
    [i \in 1..DefaultMaxRetries |-> IF i = 1 THEN HttpResponse(st, b) ELSE TransportError("Timeout")]

\* services and workspaces are constructed and the client re-authenticated, in
\* any order, against every TokenProvider
NextAuth ==
    \/ \E proxy_url \in ProxyUrls, saved_token \in SavedTokens, provider \in ProviderScripts :
           NewService(proxy_url, saved_token, provider)
    \/ \E provider \in ProviderScripts : NewWorkspace(WorkspaceW1, provider)
    \/ \E s \in 1..Len(services), provider \in ProviderScripts : Reauthenticate(s, provider)

SpecAuth == InitEmpty /\ [][NextAuth]_vars

\* a login that gives tA, one that gives tB, one whose first token does not
\* decode, and one the user abandons
Logins == {<<"tA">>, <<"tB">>, <<"garbage", "tB">>, <<>>}

\* services and entities are constructed, the client re-authenticated and
\* workspaces and reports fetched, in any order
NextShared ==
    \/ \E proxy_url \in ProxyUrls, saved_token \in {None, "tA"}, provider \in Logins :
           NewService(proxy_url, saved_token, provider)
    \/ \E provider \in Logins : NewWorkspace(WorkspaceW1, provider)
    \/ \E s \in 1..Len(services), provider \in Logins : Reauthenticate(s, provider)
    \/ \E s \in 1..Len(services), provider \in Logins :
           get_workspaces(s, None, <<>>, <<>>, Answer(200, Collection(<<WorkspaceW1>>)), provider)
    \/ \E ref \in WorkspaceRefs, provider \in Logins :
           get_reports(ref, Answer(200, Collection(<<ReportR1>>)), provider)

SpecShared == InitEmpty /\ [][NextShared]_vars

-----------------------------------------------------------------------------
(* The main program: one Service and the fetches on it and its workspaces. *)

W1 == [id |-> "w1", name |-> "Sales"]

W1b == [id |-> "w1", name |-> "Sales (renamed)"]

W2 == [id |-> "w2", name |-> "Ops", isReadOnly |-> "false"]

R1 == [id |-> "r1", datasetId |-> "d1", name |-> "Revenue"]

R1b == [id |-> "r1", datasetId |-> "d1", name |-> "Revenue v2"]

R1c == [id |-> "r1", datasetId |-> "d2", name |-> "Revenue copy"]

M1 == [id |-> "m1", name |-> "Model"]

M1b == [id |-> "m1", name |-> "Model v2"]

U1 == [emailAddress |-> "a@x.com", displayName |-> "A"]

U1b == [emailAddress |-> "a@x.com", displayName |-> "A.", groupUserAccessRight |-> "Admin"]

D1 == [id |-> "d1", displayName |-> "Board"]

D1b == [id |-> "d1", displayName |-> "Board v2"]

A1 == [id |-> "a1", name |-> "App"]

A1b == [id |-> "a1", name |-> "App v2"]

\* the well-formed bodies each endpoint answers with
WorkspaceBodies == {Collection(<<W1, W2>>), Collection(<<W1, W1b>>)}

ReportBodies == {Collection(<<R1, R1b, R1c>>), Collection(<<>>)}

SemanticModelBodies == {Collection(<<M1, M1b>>), Collection(<<>>)}

UserBodies == {Collection(<<U1, U1b>>), Collection(<<>>)}

DashboardBodies == {Collection(<<D1, D1b>>), Collection(<<>>)}

AppBodies == {Collection(<<A1, A1b>>), Collection(<<>>)}

\* bodies that are not the envelope a collection endpoint promises
MalformedBodies == {JsonArray, JsonObject([error |-> "x"]), InvalidJson}

\* k timed-out attempts, then the outcome o
After(k, o) ==
    [i \in 1..DefaultMaxRetries |-> IF i = k + 1 THEN o ELSE TransportError("Timeout")]

\* transport behaviours that make a fetch fail in its GET
FailingScripts ==
    { After(0, HttpResponse(403, NoBody)), After(1, HttpResponse(404, NoBody)),
      After(0, TransportError("ConnectionError")),
      After(DefaultMaxRetries, TransportError("Timeout")) }

\* the transport answering the first attempt of a fetch with one of the bodies
Answers(bodies) == {After(0, HttpResponse(200, b)) : b \in bodies}

\* transport behaviours of a fetch that does not reach its assignment, and the
\* one that answers with the body b
FetchScripts(b) ==
    {After(0, HttpResponse(200, m)) : m \in MalformedBodies}
    \cup FailingScripts \cup {After(2, HttpResponse(201, b))}

\* the (filter, top, skip) arguments the caller passes
NoQuery == <<None, <<>>, <<>>>>

Queries ==
    { NoQuery, <<"name eq 'Sales'", <<2>>, <<1>>>>, <<"", <<0>>, <<0>>>>,
      <<None, <<0>>, <<2>>>>, <<None, <<1>>, <<>>>> }

\* the workspaces of the services
ServiceWorkspaceRefs == {ref \in WorkspaceRefs : ~ref.held}

\* the main program: every fetch, on the service and on each of its workspaces,
\* answered with a well-formed body
Next ==
    \/ \E s \in 1..Len(services), q \in Queries, script \in Answers(WorkspaceBodies) :
           /\ q = NoQuery \/ script = After(0, HttpResponse(200, Collection(<<W1, W2>>)))
           /\ get_workspaces(s, q[1], q[2], q[3], script, GoodLogin)
    \/ \E s \in 1..Len(services), script \in Answers({JsonObject(W2)}) :
           get_workspace(s, "w2", script, GoodLogin)
    \/ \E s \in 1..Len(services), script \in Answers(AppBodies) : get_apps(s, script)
    \/ \E ref \in ServiceWorkspaceRefs, script \in Answers(ReportBodies) :
           get_reports(ref, script, GoodLogin)
    \/ \E ref \in ServiceWorkspaceRefs, script \in Answers(SemanticModelBodies) :
           get_semantic_models(ref, script)
    \/ \E ref \in ServiceWorkspaceRefs, q \in Queries, script \in Answers(UserBodies) :
           /\ q = NoQuery \/ script = After(0, HttpResponse(200, Collection(<<U1, U1b>>)))
           /\ get_users(ref, q[2], q[3], script)
    \/ \E ref \in ServiceWorkspaceRefs, script \in Answers(DashboardBodies) :
           get_dashboards(ref, script)

Spec == InitService /\ [][Next]_vars

\* fetches that fail: in the GET, in the parsing of the body, in its shape; and
\* one well-formed answer for each endpoint
NextFailure ==
    \/ \E s \in 1..Len(services), script \in FetchScripts(Collection(<<W1>>)) :
           get_workspaces(s, None, <<>>, <<>>, script, GoodLogin)
    \/ \E s \in 1..Len(services), script \in FetchScripts(JsonObject(W2)) :
           get_workspace(s, "w2", script, GoodLogin)
    \/ \E s \in 1..Len(services), script \in FetchScripts(Collection(<<A1>>)) :
           get_apps(s, script)
    \/ \E ref \in WorkspaceRefs, script \in FetchScripts(Collection(<<R1>>)) :
           get_reports(ref, script, GoodLogin)
    \/ \E ref \in ServiceWorkspaceRefs, script \in FetchScripts(Collection(<<M1>>)) :
           get_semantic_models(ref, script)
    \/ \E ref \in ServiceWorkspaceRefs, script \in FetchScripts(Collection(<<U1>>)) :
           get_users(ref, <<>>, <<>>, script)
    \/ \E ref \in ServiceWorkspaceRefs, script \in FetchScripts(Collection(<<D1>>)) :
           get_dashboards(ref, script)

SpecFailure == InitService /\ [][NextFailure]_vars

-----------------------------------------------------------------------------
(* Properties of construction, authentication and the shared client.       *)

IsConstruction(l) == l.op \in {"Service", "Workspace"}

\* C4: whatever the TokenProvider answers, also when every token it gives fails
\* to decode or lacks the user claim, construction of the client
\* re-authenticates at most once and then ends
C4_AsClaimed ==
    IsConstruction(last) => last.reauths <= 1

IsFetch(l) ==
    l.op \in {"get_workspaces", "get_workspace", "get_apps", "get_reports",
              "get_semantic_models", "get_users", "get_dashboards"}

IsProviderCall(e) == e.k = "provider"

\* C5: when an attempt of a fetch is answered 403, the token is regenerated
\* (the TokenProvider is asked) and the same call is attempted once more, with
\* the new token, before any error reaches the caller
C5_AsClaimed ==
    IsFetch(last) =>
        \A i \in 1..Len(Attempts(last)) :
            (last.script[i].t = "response" /\ last.script[i].status = 403)
            => /\ SelectSeq(last.events, IsProviderCall) # <<>>
               /\ Len(Attempts(last)) > i
               /\ Attempts(last)[i + 1].headers = clients[pbi[1]._pbi_api].header

\* every reference to a client held by a Service, a Workspace or a Report
HeldWorkspaces == {held[i] : i \in 1..Len(held)}

AllWorkspaces ==
    UNION {services[s].workspaces : s \in 1..Len(services)} \cup HeldWorkspaces

ApiRefs ==
    {services[s].api : s \in 1..Len(services)}
    \cup {w.api : w \in AllWorkspaces}
    \cup UNION {{r.api : r \in w.reports} : w \in AllWorkspaces}

\* C6: every Service, Workspace and Report holds the same single client; no
\* client exists before the first access to pbi_api and none is ever
\* constructed besides the first, whatever arguments later PbiAPI(...) calls pass
C6_OneSharedClient ==
    /\ Len(clients) <= 1
    /\ pbi = <<>> => clients = <<>>
    /\ \A a \in ApiRefs : a = 1 /\ Len(clients) = 1 /\ pbi[1]._pbi_api = 1

C6_Witness ==
    /\ Len(services) = 2 /\ Len(clients) = 1
    /\ last.op = "Service" /\ last.result.kind = "return" /\ last.calls = 0
    /\ pbi[1].proxy_url = None /\ clients[1].proxies = NoProxies
    /\ held # <<>>
    /\ \E w \in services[1].workspaces : w.reports # {}

\* C7: every fetch, by whichever Service or Workspace and whenever that entity
\* was constructed, sends in its Authorization header the token the shared
\* client holds at that moment, which after reauthenticate is the new token
C7_ReauthVisibleToAll ==
    IsFetch(last) =>
        \A i \in 1..Len(Attempts(last)) :
            Attempts(last)[i].headers = Bearer(clients[pbi[1]._pbi_api].access_token)

\* service 1, constructed with the saved token tA, fetches with tB after a
\* re-authentication that installed tB
C7_Witness ==
    /\ last.op = "get_workspaces" /\ last.ref = ServiceRef(1)
    /\ pbi[1].saved_token = "tA"
    /\ clients[1].access_token = "tB" /\ clients[1].saved_token = None
    /\ Attempts(last)[1].headers = <<"Bearer", "tB">>

-----------------------------------------------------------------------------
(* Properties of the fetch protocol.                                       *)

IsCollectionFetch(l) == IsFetch(l) /\ l.op # "get_workspace"

\* the collection the last fetch is about, as it is now
Target(l) ==
    CASE l.op = "get_workspaces" -> services[l.ref.svc].workspaces
      [] l.op = "get_apps" -> services[l.ref.svc].apps
      [] l.op = "get_reports" -> Deref(l.ref).reports
      [] l.op = "get_semantic_models" -> Deref(l.ref).semantic_models
      [] l.op = "get_users" -> Deref(l.ref).users
      [] l.op = "get_dashboards" -> Deref(l.ref).dashboards

\* the elements of the "value" array of the response the last fetch got
Elements(l) ==
    LET value == l.http.response.body.obj["value"]
    IN  {value[i] : i \in 1..Len(value)}

\* the identity key of the entity an element stands for
ElementKey(l, e) ==
    CASE l.op = "get_reports" -> <<Get(e, "datasetId"), Get(e, "id")>>
      [] l.op = "get_users" -> <<Get(e, "emailAddress")>>
      [] OTHER -> <<Get(e, "id")>>

\* C10: after a successful fetch of a collection, the collection holds exactly
\* the entities of the response just received: one for each identity in it,
\* each built from an element of it, and none that was there before and is
\* absent from the response
C10_FetchReplaces ==
    (IsCollectionFetch(last) /\ last.result.kind = "return") =>
        /\ {HashKey(x) : x \in Target(last)} = {ElementKey(last, e) : e \in Elements(last)}
        /\ \A x \in Target(last) : x.original_data \in Elements(last)
        /\ \A b \in last.before :
               b.key \notin {ElementKey(last, e) : e \in Elements(last)}
               => ~\E x \in Target(last) : HashKey(x) = b.key

\* the second response to get_workspaces omits w2, which the first one had
C10_Witness ==
    /\ last.op = "get_workspaces" /\ last.result.kind = "return"
    /\ \E b \in last.before : b.key = <<"w2">>
    /\ {w.id : w \in services[1].workspaces} = {"w1"}

\* the parsed body is a JSON array, or a mapping without the "value" key
ShapeViolation(l) ==
    /\ l.http.kind = "return"
    /\ \/ l.http.response.body.kind = "list"
       \/ /\ l.http.response.body.kind = "dict"
          /\ "value" \notin DOMAIN l.http.response.body.obj

\* C11: a collection fetch whose response parses to a JSON array, or to a
\* mapping without "value", fails with TypeError, and the collection it fetches
\* holds after the call what it held before
C11_ShapeViolationKeeps ==
    [][ (IsCollectionFetch(last') /\ ShapeViolation(last'))
        => /\ last'.result.kind = "raise"
           /\ last'.result.error = "TypeError"
           /\ Target(last)' = Target(last') ]_vars

\* the users fetched earlier are still there after a response without "value"
C11_Witness ==
    /\ last.op = "get_users" /\ ShapeViolation(last)
    /\ last.http.response.body.kind = "dict"
    /\ last.result.error = "TypeError"
    /\ Target(last) # {}
    /\ {HashKey(x) : x \in Target(last)} = {b.key : b \in last.before}

\* the attributes a fetched entity takes from its element, each with the key of
\* the element it is read from
FieldsOf(op) ==
    CASE op = "get_workspaces" ->
             { <<"id", "id">>, <<"name", "name">>, <<"is_read_only", "isReadOnly">>,
               <<"is_on_dedicated_capacity", "isOnDedicatedCapacity">>,
               <<"capacity_id", "capacityId">> }
      [] op = "get_apps" ->
             { <<"id", "id">>, <<"description", "description">>, <<"name", "name">>,
               <<"published_by", "publishedBy">>, <<"last_update", "lastUpdate">> }
      [] op = "get_reports" ->
             { <<"app_id", "appId">>, <<"dataset_id", "datasetId">>,
               <<"description", "description">>, <<"embed_url", "embedUrl">>, <<"id", "id">>,
               <<"name", "name">>, <<"original_report_id", "originalReportId">>,
               <<"type", "reportType">>, <<"web_url", "webUrl">>,
               <<"modified_by", "modifiedBy">>, <<"created_by", "createdBy">> }
      [] op = "get_semantic_models" ->
             { <<"id", "id">>, <<"name", "name">>, <<"configured_by", "configuredBy">>,
               <<"is_refreshable", "isRefreshable">>, <<"created_date", "createdDate">>,
               <<"storage_mode", "targetStorageMode">> }
      [] op = "get_users" ->
             { <<"email", "emailAddress">>, <<"access_right", "groupUserAccessRight">>,
               <<"principal_type", "principalType">>, <<"name", "displayName">> }
      [] op = "get_dashboards" -> { <<"id", "id">>, <<"name", "displayName">> }

\* x was built from the element e by the fetch recorded in l
BuiltFrom(l, x, e) ==
    /\ \A f \in FieldsOf(l.op) : x[f[1]] = Get(e, f[2])
    /\ IF l.op = "get_apps" THEN x.service = l.ref ELSE x.parent = l.ref

ChildFields == {"reports", "semantic_models", "dataflows", "dashboards", "data_sources", "users"}

\* the fetch that fills a child collection; no operation fills the other two
FetchOf(f) ==
    CASE f = "reports" -> "get_reports"
      [] f = "semantic_models" -> "get_semantic_models"
      [] f = "dashboards" -> "get_dashboards"
      [] f = "users" -> "get_users"
      [] OTHER -> "no operation"

\* the operations that construct Workspace objects
BuildsWorkspaces(l) == l.op \in {"get_workspaces", "get_workspace", "Workspace"}

\* the collection after a successful fetch: one entity for each identity key in
\* the "value" array, each built from an element with that key
OnePerKey(l) ==
    (IsCollectionFetch(l) /\ l.result.kind = "return") =>
        /\ Cardinality(Target(l)) = Cardinality({ElementKey(l, e) : e \in Elements(l)})
        /\ \A e \in Elements(l) :
               Cardinality({x \in Target(l) : HashKey(x) = ElementKey(l, e)}) = 1
        /\ \A x \in Target(l) :
               \E e \in Elements(l) : ElementKey(l, e) = HashKey(x) /\ BuiltFrom(l, x, e)

\* C12: after a successful collection fetch the collection holds exactly one
\* entity for each distinct identity key among the elements of "value", each
\* with its fields taken from an element with that key and its parent the
\* object the fetch was called on; and a child collection of a Workspace is
\* changed only by its own fetch on that Workspace, or is empty because the
\* Workspace was just constructed
C12_OnePerKeyEmptyUntilFetched ==
    [][ /\ OnePerKey(last)'
        /\ \A ref \in WorkspaceRefs \cap WorkspaceRefs', f \in ChildFields :
               Deref(ref)'[f] # Deref(ref)[f]
               => \/ last'.op = FetchOf(f) /\ last'.ref = ref
                  \/ BuildsWorkspaces(last') /\ Deref(ref)'[f] = {}
        /\ \A ref \in WorkspaceRefs' \ WorkspaceRefs, f \in ChildFields :
               BuildsWorkspaces(last') /\ Deref(ref)'[f] = {} ]_vars

\* three report elements, two of them with the same (datasetId, id), give two
\* reports, the first of the two equal ones kept; the workspace they belong to
\* has no users yet
C12_Witness ==
    /\ last.op = "get_reports" /\ last.result.kind = "return"
    /\ Cardinality(Elements(last)) = 3
    /\ {<<x.dataset_id, x.id, x.name>> : x \in Target(last)}
           = {<<"d1", "r1", "Revenue">>, <<"d2", "r1", "Revenue copy">>}
    /\ \A x \in Target(last) : x.parent = last.ref
    /\ Deref(last.ref).users = {}
    /\ Deref(last.ref).semantic_models # {}

-----------------------------------------------------------------------------
(* Equality and hashing of entities.                                       *)

\* the caller evaluates a == b, hash(a) and hash(b)
Compared(a, b) ==
    [op |-> "compare", a |-> a, b |-> b, eq |-> Eq(a, b), hash_a |-> Hash(a), hash_b |-> Hash(b)]

Compare(a, b) ==
    /\ last' = Compared(a, b)
    /\ UNCHANGED <<pbi, clients, services, held>>

\* elements with the same identity and different other fields, with another
\* identity, and without the identifying field
WorkspaceElements == {W1, W1b, W2, [name |-> "Sales"]}

ReportElements == {R1, R1b, R1c, [id |-> "r2", datasetId |-> "d1", name |-> "Revenue"]}

UserElements == {U1, U1b, [emailAddress |-> "b@x.com", displayName |-> "A"]}

Parents == {ServiceRef(1), WorkspaceRef(FALSE, 1, "w1")}

\* entities of the five kinds; a Workspace, a SemanticModel and an App are built
\* from the same elements, so that entities of different kinds share an id
Entities ==
    UNION { {Workspace(p, e, 1) : e \in WorkspaceElements}
            \cup {SemanticModel(p, e) : e \in WorkspaceElements}
            \cup {App(p, e) : e \in WorkspaceElements}
            \cup {Report(p, e, 1) : e \in ReportElements}
            \cup {User(p, e) : e \in UserElements} : p \in Parents }

NextEntities == \E a \in Entities, b \in Entities : Compare(a, b)

SpecEntities == InitService /\ [][NextEntities]_vars

\* the identity key the specification gives each kind
IdentityKey(x) ==
    CASE x.cls = "Report" -> <<x.dataset_id, x.id>>
      [] x.cls = "User" -> <<x.email>>
      [] x.cls \in {"Workspace", "SemanticModel", "App"} -> <<x.id>>

\* C13: two entities of the same kind are equal exactly when their identity
\* keys are (Workspace, SemanticModel, App: id; Report: (datasetId, id); User:
\* email), whatever their other fields; entities of different kinds are not
\* equal; equal entities have equal hashes
C13_EqualityByIdentity ==
    last.op = "compare" =>
        /\ last.a.cls = last.b.cls => (last.eq <=> IdentityKey(last.a) = IdentityKey(last.b))
        /\ last.a.cls # last.b.cls => ~last.eq
        /\ last.eq => last.hash_a = last.hash_b

\* two reports with the same (datasetId, id), another name and another parent
C13_Witness ==
    /\ last.op = "compare" /\ last.eq
    /\ last.a.cls = "Report" /\ last.b.cls = "Report"
    /\ last.a.name # last.b.name /\ last.a.parent # last.b.parent
    /\ last.hash_a = <<"d1", "r1">>

-----------------------------------------------------------------------------
(* Further properties of the request layer.                                *)

\* C14: every error a request operation raises (transport failure, exhaustion,
\* classified HTTP failure) is an APIError or a subclass of it, so that
\* `except APIError` catches every failure of a request
C14_AsClaimed ==
    (IsRequest(last) /\ last.result.kind = "raise")
    => /\ IsSubclass(last.result.error, "APIError")
       /\ Catches({"APIError"}, last.result.error)

\* one outcome of each kind: success, classified failures, timeout, transport
\* failure
ClientOutcomes ==
    {HttpResponse(st, NoBody) : st \in {200, 403, 429}}
    \cup {TransportError(e) : e \in {"Timeout", "ConnectionError"}}

\* the client is constructed and re-authenticated, and requests are made on it,
\* in any order
NextClient ==
    \/ \E proxy_url \in ProxyUrls, saved_token \in {None, "tA", "garbage"}, provider \in Logins :
           NewService(proxy_url, saved_token, provider)
    \/ \E s \in 1..Len(services), provider \in Logins : Reauthenticate(s, provider)
    \/ \E s \in 1..Len(services), n \in 0..2 :
           \E script \in Scripts(n, {TransportError("Timeout"), HttpResponse(429, NoBody)},
                                   ClientOutcomes) :
               \/ make_api_get_request(s, n, script)
               \/ make_api_post_request(s, n, script)
               \/ make_api_delete_request(s, n, script)

SpecClient == InitEmpty /\ [][NextClient]_vars

ProviderCalls(l) == SelectSeq(l.events, IsProviderCall)

\* C15: a GET, POST or DELETE request, however it ends, leaves the client's
\* access token, saved token, header, user and proxies as they were and does
\* not ask the TokenProvider; the client changes only in a construction or in a
\* reauthenticate call
C15_RequestsKeepClient ==
    [][ /\ IsRequest(last')
           => /\ clients' = clients
              /\ pbi' = pbi
              /\ ProviderCalls(last') = <<>>
        /\ clients' # clients => last'.op \in {"Service", "reauthenticate"} ]_vars

\* a POST answered 403 on a client that was constructed with the saved token tA
\* and re-authenticated to tB: it ends with TokenExpiredError and the client
\* still holds tB
C15_Witness ==
    /\ IsRequest(last) /\ last.req.method = "POST" /\ last.req.max_retries = 2
    /\ last.script[1].status = 403 /\ last.result.error = "TokenExpiredError"
    /\ pbi[1].saved_token = "tA"
    /\ clients[1].access_token = "tB" /\ clients[1].header = Bearer("tB")
    /\ last.req.headers = Bearer("tB")

-----------------------------------------------------------------------------
(* Further properties of the fetch protocol.                               *)

\* C16: a fetch makes one GET call: every HTTP attempt of it is a GET of the
\* one URL the fetch built, an attempt is followed by another only when it
\* timed out, and a response, whatever it holds, is followed by no request
C16_OneGetPerFetch ==
    IsFetch(last) =>
        /\ Len(Attempts(last)) \in 1..DefaultMaxRetries
        /\ \A i \in 1..Len(Attempts(last)) :
               /\ Attempts(last)[i].method = "GET"
               /\ Attempts(last)[i].url = last.req.url
        /\ \A i \in 1..(Len(Attempts(last)) - 1) : IsTimeout(last.script[i])

\* get_users(top=2, skip=1) answered with a full page of two elements: one
\* attempt, with $skip=1
C16_Witness ==
    /\ last.op = "get_users" /\ last.result.kind = "return"
    /\ Len(last.http.response.body.obj["value"]) = 2
    /\ Len(Attempts(last)) = 1
    /\ \E i \in 1..(Len(last.req.url) - 1) :
           last.req.url[i] = "$top=" /\ last.req.url[i + 1] = "2"
    /\ \E i \in 1..(Len(last.req.url) - 1) :
           last.req.url[i] = "$skip=" /\ last.req.url[i + 1] = "1"

\* two query parameters joined with '&', an absent one leaving no '&'
Joined(a, b) == IF a = <<>> THEN b ELSE IF b = <<>> THEN a ELSE a \o <<"&">> \o b

\* the query string the claim describes: a parameter is there exactly when a
\* value was passed for it
ClaimedQuery(filter, top, skip) ==
    Joined(Joined(IF filter # None THEN <<"$filter=", filter>> ELSE <<>>,
                  IF top # <<>> THEN <<"$top=", Str(top[1])>> ELSE <<>>),
           IF skip # <<>> THEN <<"$skip=", Str(skip[1])>> ELSE <<>>)

\* C17: the URL of get_workspaces(filter, top, skip) and of get_users(top, skip)
\* ends with the parameters a value was passed for, top = 0 and skip = 0
\* included, in the order $filter, $top, $skip, joined with '&'
C17_AsClaimed ==
    [][ /\ \A s \in 1..Len(services), q \in Queries :
               get_workspaces(s, q[1], q[2], q[3],
                              After(0, HttpResponse(200, Collection(<<W1, W2>>))), GoodLogin)
               => last'.req.url = BASE_URL \o <<"groups?">> \o ClaimedQuery(q[1], q[2], q[3])
        /\ \A ref \in ServiceWorkspaceRefs, q \in Queries :
               get_users(ref, q[2], q[3], After(0, HttpResponse(200, Collection(<<U1, U1b>>))))
               => last'.req.url = BASE_URL \o <<"groups/", ref.id, "/users?">>
                                     \o ClaimedQuery(None, q[2], q[3]) ]_vars

-----------------------------------------------------------------------------
(* Further properties of authentication.                                   *)

\* the logins, and one whose first token lacks the user claim
LoginAttempts == Logins \cup {<<"noupn", "tA">>}

\* the client is constructed, by a Service or by a Workspace, with and without
\* a saved token, and re-authenticated
NextLogin ==
    \/ \E proxy_url \in ProxyUrls, saved_token \in SavedTokens, provider \in LoginAttempts :
           NewService(proxy_url, saved_token, provider)
    \/ \E provider \in LoginAttempts : NewWorkspace(WorkspaceW1, provider)
    \/ \E s \in 1..Len(services), provider \in LoginAttempts : Reauthenticate(s, provider)

SpecLogin == InitEmpty /\ [][NextLogin]_vars

\* the token decodes and its claims give the user identifier
Decodes(token) == token \in GoodTokens

\* the next operation constructs the client: a Service or a Workspace is
\* constructed while the shared instance has no client yet
Constructs ==
    /\ IsConstruction(last')
    /\ pbi = <<>> \/ pbi[1]._pbi_api = 0

\* the token passed to the construction of the client
Supplied == pbi'[1].saved_token

\* C18: the construction of the client asks the TokenProvider exactly when no
\* token was supplied or the supplied token does not decode to the user
\* identifier; with a supplied token that does, the client is constructed with
\* that token as its bearer token and the user of its claims, the TokenProvider
\* never asked.  reauthenticate always asks the TokenProvider, leaves the saved
\* token cleared, and the token it installs is the TokenProvider's last answer
C18_ProviderOnlyWhenNeeded ==
    [][ /\ Constructs => (ProviderCalls(last') # <<>> <=> ~Decodes(Supplied))
        /\ (Constructs /\ Decodes(Supplied))
           => /\ last'.result.kind = "return" /\ last'.calls = 0 /\ last'.reauths = 0
              /\ clients'[pbi'[1]._pbi_api].access_token = Supplied
              /\ clients'[pbi'[1]._pbi_api].header = Bearer(Supplied)
              /\ clients'[pbi'[1]._pbi_api].user = TokenClaims[Supplied].claims.upn
        /\ last'.op = "reauthenticate"
           => /\ ProviderCalls(last') # <<>>
              /\ Len(ProviderCalls(last')) = last'.calls
              /\ clients'[services[last'.ref.svc].api].saved_token = None
              /\ \A provider \in LoginAttempts :
                     (Reauthenticate(last'.ref.svc, provider) /\ last'.result.kind = "return")
                     => clients'[services[last'.ref.svc].api].access_token
                            = provider[last'.calls] ]_vars

\* a client constructed with the saved token tA, the TokenProvider not asked
C18_Witness ==
    /\ last.op = "Service" /\ last.result.kind = "return"
    /\ Len(services) = 1 /\ pbi[1].saved_token = "tA"
    /\ last.events = <<>> /\ last.calls = 0
    /\ clients[1].access_token = "tA" /\ clients[1].user = "alice@x.com"
    /\ clients[1].saved_token = "tA"

-----------------------------------------------------------------------------
(* How a request ends.                                                     *)

\* the three ways a request can end
EndsInSuccess(l) ==
    /\ l.result.kind = "return"
    /\ l.result.response.t = "response"
    /\ l.result.response.status \in {200, 201, 202}

EndsInError(l) ==
    /\ l.result.kind = "raise"
    /\ \/ l.result.status \notin {0, 200, 201, 202} /\ l.result.error = TableError(l.result.status)
       \/ l.result.error = "APIError" /\ l.result.msg = "Request error" /\ l.result.cause # ""

EndsInExhaustion(l) ==
    /\ l.result.kind = "raise"
    /\ l.result.error = "APIError"
    /\ l.result.msg = "API request failed after maximum retries."
    /\ l.result.status = 0 /\ l.result.cause = ""

\* C19: whatever the transport answers, a request makes at most max_retries
\* HTTP attempts and ends in exactly one of three ways: it returns a success
\* response, it raises a classified or transport error, or it raises the
\* exhaustion APIError; with max_retries = 0 it makes no attempt, does not
\* sleep, and raises the exhaustion APIError
C19_BoundedAttempts ==
    IsRequest(last) =>
        /\ Len(Attempts(last)) <= last.req.max_retries
        /\ Cardinality({e \in {"success", "error", "exhaustion"} :
                            \/ e = "success" /\ EndsInSuccess(last)
                            \/ e = "error" /\ EndsInError(last)
                            \/ e = "exhaustion" /\ EndsInExhaustion(last)}) = 1
        /\ EndsInExhaustion(last) => Len(Attempts(last)) = last.req.max_retries
        /\ last.req.max_retries = 0 => Steps(last) = <<>> /\ EndsInExhaustion(last)

\* a POST with max_retries = 0
C19_Witness ==
    /\ IsRequest(last) /\ last.req.method = "POST" /\ last.req.max_retries = 0
    /\ last.events = <<>>
    /\ last.result.kind = "raise" /\ last.result.msg = ExhaustedMessage

-----------------------------------------------------------------------------
(* The token state after authentication.                                   *)

\* the next operation authenticates the client and returns normally
Authenticated ==
    /\ Constructs \/ last'.op = "reauthenticate"
    /\ last'.result.kind = "return"

\* the shared client after the next operation
ClientAfter == clients'[pbi'[1]._pbi_api]

\* C20: when the construction of the client or a reauthenticate call returns
\* normally, also after tokens that did not decode, the header is
\* 'Bearer <access_token>', the access token decodes and is the last token
\* obtained (the TokenProvider's last answer, or the supplied token when the
\* TokenProvider was not asked), and the user is the claim of that token
C20_TokenStateConsistent ==
    [][ Authenticated
        => /\ ClientAfter.header = <<"Bearer", ClientAfter.access_token>>
           /\ Decodes(ClientAfter.access_token)
           /\ ClientAfter.user = TokenClaims[ClientAfter.access_token].claims.upn
           /\ last'.calls = 0 => ClientAfter.access_token = Supplied
           /\ \A provider \in LoginAttempts :
                  ( /\ last'.calls > 0
                    /\ \/ Reauthenticate(last'.ref.svc, provider)
                       \/ NewWorkspace(WorkspaceW1, provider)
                       \/ \E proxy_url \in ProxyUrls, saved_token \in SavedTokens :
                              NewService(proxy_url, saved_token, provider) )
                  => ClientAfter.access_token = provider[last'.calls] ]_vars

\* a client constructed with the saved token tA is re-authenticated; the first
\* token of the login does not decode, the second is tB
C20_Witness ==
    /\ last.op = "reauthenticate" /\ last.result.kind = "return"
    /\ last.calls = 2 /\ last.reauths = 2
    /\ pbi[1].saved_token = "tA"
    /\ clients[1].access_token = "tB" /\ clients[1].user = "bob@x.com"
    /\ clients[1].header = <<"Bearer", "tB">>

-----------------------------------------------------------------------------
(* What a fetch leaves alone.                                              *)

\* the collection attribute a fetch of a Workspace assigns
FetchedField(op) ==
    CASE op = "get_reports" -> "reports"
      [] op = "get_semantic_models" -> "semantic_models"
      [] op = "get_users" -> "users"
      [] op = "get_dashboards" -> "dashboards"

IsWorkspaceFetch(l) ==
    l.op \in {"get_reports", "get_semantic_models", "get_users", "get_dashboards"}

\* C21: a fetch changes only its own collection.  A fetch of a Workspace leaves
\* the other collections of that Workspace, every collection of every other
\* Workspace, and the workspaces (as a set of identities) and apps of every
\* Service as they were; get_workspaces leaves apps, get_apps leaves
\* workspaces, and both leave the other Services and the Workspace the caller
\* holds alone; get_workspace leaves every Service as it was
C21_FetchChangesOnlyItsCollection ==
    [][ IsFetch(last') =>
        /\ Len(services') = Len(services)
        /\ last'.op = "get_workspaces" =>
               /\ held' = held
               /\ \A t \in 1..Len(services) :
                      /\ services'[t].apps = services[t].apps
                      /\ t # last'.ref.svc => services'[t] = services[t]
        /\ last'.op = "get_apps" =>
               /\ held' = held
               /\ \A t \in 1..Len(services) :
                      /\ services'[t].workspaces = services[t].workspaces
                      /\ t # last'.ref.svc => services'[t] = services[t]
        /\ last'.op = "get_workspace" => services' = services
        /\ IsWorkspaceFetch(last') =>
               /\ WorkspaceRefs' = WorkspaceRefs
               /\ \A t \in 1..Len(services) : services'[t].apps = services[t].apps
               /\ \A ref \in WorkspaceRefs, f \in ChildFields :
                      (ref # last'.ref \/ f # FetchedField(last'.op))
                      => Deref(ref)'[f] = Deref(ref)[f] ]_vars

\* reports are fetched into a Workspace whose users were fetched before, while
\* another Workspace of the Service holds dashboards and the Service holds apps:
\* all three are still there
C21_Witness ==
    /\ last.op = "get_reports" /\ last.result.kind = "return"
    /\ Deref(last.ref).reports # {}
    /\ Deref(last.ref).users # {}
    /\ \E ref \in WorkspaceRefs : ref # last.ref /\ Deref(ref).dashboards # {}
    /\ services[last.ref.svc].apps # {}

-----------------------------------------------------------------------------
(* Fetches that fail.                                                      *)

\* the GET of the fetch ended in an error: a status the table classifies, a
\* transport failure, or no attempt left after timeouts
GetFailed(l) == IsFetch(l) /\ l.http.kind = "raise"

\* C22: a fetch whose GET fails ends in the error of the GET, and a fetch that
\* ends in an error, whichever it is, leaves every collection of every Service
\* and Workspace as it was: a collection changes only in a fetch that returns
C22_FailedFetchKeepsCollections ==
    [][ /\ GetFailed(last') => last'.result = last'.http
        /\ (IsFetch(last') /\ last'.result.kind = "raise")
               => /\ services' = services
                  /\ held' = held ]_vars

\* the reports fetched earlier are still there after a get_reports that ran out
\* of attempts, every one of them timed out
C22_Witness ==
    /\ last.op = "get_reports" /\ GetFailed(last)
    /\ last.result.error = "APIError"
    /\ Len(Attempts(last)) = DefaultMaxRetries
    /\ \A i \in 1..DefaultMaxRetries : IsTimeout(last.script[i])
    /\ Target(last) # {}
    /\ {HashKey(x) : x \in Target(last)} = {b.key : b \in last.before}

-----------------------------------------------------------------------------
(* Fetching again.                                                         *)

\* the Workspace is as its constructor leaves it: its attributes read from the
\* element it was built from, its parent the Service, every child collection empty
NewlyBuilt(w, parent) == w = Workspace(parent, w.original_data, w.api)

\* an identity the Service held before the last fetch, with fetched children
WasPopulated(l, key) == \E b \in l.before : b.key = key /\ b.populated

\* C23: after a successful get_workspaces every Workspace of the Service is a
\* newly built one, built from an element of the response just received, with
\* no reports, semantic models, users or dashboards, whatever the Workspace of
\* the same id held before the call
C23_RebuiltOnRefetch ==
    (last.op = "get_workspaces" /\ last.result.kind = "return") =>
        \A w \in services[last.ref.svc].workspaces :
            /\ NewlyBuilt(w, last.ref)
            /\ w.original_data \in Elements(last)
            /\ w.reports = {} /\ w.semantic_models = {}
            /\ w.users = {} /\ w.dashboards = {}

\* get_workspaces answers again with w1, whose reports and users had been
\* fetched since the first get_workspaces
C23_Witness ==
    /\ last.op = "get_workspaces" /\ last.result.kind = "return"
    /\ WasPopulated(last, <<"w1">>)
    /\ \E w \in services[last.ref.svc].workspaces :
           /\ w.id = "w1"
           /\ w.reports = {} /\ w.users = {}

====
